---- MODULE Spec2Model ----
(***************************************************************************)
(* Token lifecycle manager of mcp-localline (src/mcp_localline/auth.py).   *)
(*                                                                         *)
(* Strings are sequences of characters, so that str.strip() is a real      *)
(* conversion.  The credential store is the macOS keychain reached through *)
(* _keychain_get / _keychain_set; the Token Endpoint is the environment.   *)
(* Each operation runs as a sequence of steps, one per external call       *)
(* (store read, store write, HTTP call), so that the position of an        *)
(* invocation between two store calls is a state of the model.             *)
(***************************************************************************)
EXTENDS Naturals, Sequences, FiniteSets, TLC

\* ------------------------------------------------------------------ bounds
\* longest string drawn for a token, an environment value or a JSON field
MaxLen == 2

\* ----------------------------------------------------------------- strings
Chars == {" ", "a"}

Str == UNION {[1..n -> Chars] : n \in 0..MaxLen}

\* Python's None: an absent keychain item, a missing JSON field, no token
\* (a one-element sequence that is no string over Chars)
None == <<"None">>

Whitespace == {" ", "\n"}

RECURSIVE lstrip(_)
lstrip(s) == IF s # <<>> /\ Head(s) \in Whitespace THEN lstrip(Tail(s)) ELSE s

RECURSIVE rstrip(_)
rstrip(s) ==
    IF s # <<>> /\ s[Len(s)] \in Whitespace
    THEN rstrip(SubSeq(s, 1, Len(s) - 1))
    ELSE s

\* str.strip()
strip(s) == rstrip(lstrip(s))

\* `x or ""` followed by str(): a missing, null or empty JSON field reads ""
or_empty(x) == IF x = None THEN <<>> ELSE x

\* ------------------------------------------------------- credential store
Slots == {"refresh_token", "access_token"}

\* What a keychain item can hold: every value the program writes is a
\* stripped string; an item may also be absent.
StoreVals == {None} \cup {strip(s) : s \in Str}

Stores == [Slots -> StoreVals]

\* a read that hands an empty value on as a value
keychain_get_keep_empty(st, account) ==
    IF st[account] = None THEN None
    ELSE strip(st[account] \o <<"\n">>)

\* the output of `security` taken as it comes
keychain_get_unstripped(st, account) ==
    IF st[account] = None THEN None ELSE st[account] \o <<"\n">>

\* _keychain_get: `security find-generic-password -w` exits non-zero for an
\* absent item, else prints the value and a newline; a blank output reads None
keychain_get(st, account) ==
    IF st[account] = None THEN None
    ELSE LET value == strip(st[account] \o <<"\n">>)
         IN IF value = <<>> THEN None ELSE value

\* a write that adds an item and does not update one (no -U)
keychain_set_no_update(st, account, value) ==
    IF st[account] = None THEN [st EXCEPT ![account] = value] ELSE st

\* _keychain_set when `security add-generic-password -U` exits 0: an upsert
keychain_set(st, account, value) == [st EXCEPT ![account] = value]

\* ---------------------------------------------------------- Token Endpoint
\* What _post_json yields: it raises (an HTTP error status re-raised as
\* RuntimeError, a transport error raised by urlopen) or returns the JSON
\* body and the raw Set-Cookie headers.
HttpErrors == {"RuntimeError: HTTP", "URLError"}

RefreshResponses ==
    [kind : {"error"}, err : HttpErrors]
        \cup [kind : {"json"}, access : Str \cup {None}, refresh : Str \cup {None}]

\* refresh_access: the TokenPair it returns, or the error it raises
refresh_access(resp, refresh) ==
    IF resp.kind = "error" THEN [raised |-> resp.err]
    ELSE LET access == strip(or_empty(resp.access))
             refresh_out == strip(IF or_empty(resp.refresh) # <<>>
                                  THEN resp.refresh ELSE refresh)
         IN IF access = <<>>
            THEN [raised |-> "RuntimeError: Refresh succeeded but no access token returned"]
            ELSE [raised |-> "", access |-> access, refresh |-> refresh_out]

\* -------------------------------------------------------- Set-Cookie headers
\* A raw header is its ';'-separated parts in order; a part is `key=val`, or
\* a bare `key` (val = None).  Cookie names are atoms, with str.lower() and
\* the substring test tabulated over the names drawn.
lower(n) ==
    CASE n = "LL_Refresh" -> "ll_refresh"
      [] n = "Domain" -> "domain"
      [] n = "Path" -> "path"
      [] n = "BadAttr" -> "badattr"
      [] n = "Max-Age" -> "max-age"
      [] OTHER -> n

candidate_names ==
    {"refresh", "refresh_token", "jwt_refresh_token", "ll_refresh", "token_refresh"}

\* "refresh" in lname
has_refresh(lname) ==
    lname \in {"refresh", "refresh_token", "jwt_refresh_token", "ll_refresh",
               "token_refresh", "my_refresh_id"}

\* line 66 / line 74: the name test
name_matches(n) == lower(n) \in candidate_names \/ has_refresh(lower(n))

\* http.cookies: Morsel._reserved and Morsel._flags
reserved == {"expires", "path", "comment", "domain", "max-age", "secure",
             "httponly", "version", "samesite"}
flags == {"secure", "httponly"}

\* a value in double quotes
quoted(v) == Len(v) >= 2 /\ v[1] = "\"" /\ v[Len(v)] = "\""

\* a value the cookie pattern reads whole: a quoted string, or a run without
\* whitespace
legal_value(v) ==
    \/ quoted(strip(v))
    \/ \A i \in 1..Len(strip(v)) : strip(v)[i] \notin Whitespace

\* http.cookies._unquote: a quoted value loses its quotes
unquote(v) == IF quoted(v) THEN SubSeq(v, 2, Len(v) - 1) ELSE v

\* dict assignment: a key seen again keeps its place and takes the new value
put(acc, k, v) ==
    IF \E i \in 1..Len(acc) : acc[i].key = k
    THEN [i \in 1..Len(acc) |-> IF acc[i].key = k THEN [key |-> k, value |-> v]
                                 ELSE acc[i]]
    ELSE Append(acc, [key |-> k, value |-> v])

\* SimpleCookie.load(raw): the morsels in dict order; a syntactically invalid
\* cookie string loads nothing
RECURSIVE load(_, _, _)
load(parts, morsel_seen, acc) ==
    IF parts = <<>> THEN acc
    ELSE LET p == Head(parts)
         IN IF lower(p.key) \in reserved
            THEN IF ~morsel_seen THEN <<>>
                 ELSE IF p.val = None /\ lower(p.key) \notin flags THEN <<>>
                 ELSE load(Tail(parts), morsel_seen, acc)
            ELSE IF p.val # None
                 THEN IF legal_value(p.val)
                      THEN load(Tail(parts), TRUE,
                                put(acc, p.key, unquote(strip(p.val))))
                      ELSE <<>>
                 ELSE <<>>

SimpleCookie(raw) == load(raw, FALSE, <<>>)

\* lines 64-67: the first matching morsel with a value, "" if none
RECURSIVE first_morsel(_)
first_morsel(c) ==
    IF c = <<>> THEN <<>>
    ELSE IF name_matches(Head(c).key) /\ Head(c).value # <<>>
         THEN strip(Head(c).value)
         ELSE first_morsel(Tail(c))

\* lines 70-75: raw.split(";", 1)[0] split on its first "="
fallback(raw) ==
    IF raw # <<>> /\ Head(raw).val # None
          /\ name_matches(Head(raw).key) /\ strip(Head(raw).val) # <<>>
    THEN strip(Head(raw).val)
    ELSE <<>>

\* _extract_refresh_from_set_cookie
RECURSIVE extract_refresh_from_set_cookie(_)
extract_refresh_from_set_cookie(set_cookies) ==
    IF set_cookies = <<>> THEN <<>>
    ELSE LET raw == Head(set_cookies)
             strict == first_morsel(SimpleCookie(raw))
         IN IF strict # <<>> THEN strict
            ELSE IF fallback(raw) # <<>> THEN fallback(raw)
            ELSE extract_refresh_from_set_cookie(Tail(set_cookies))

\* lines 81-93: the names of one header after the other
RECURSIVE all_names(_)
all_names(set_cookies) ==
    IF set_cookies = <<>> THEN <<>>
    ELSE LET raw == Head(set_cookies)
             c == SimpleCookie(raw)
             here == IF c # <<>> THEN [i \in 1..Len(c) |-> c[i].key]
                     ELSE IF raw # <<>> /\ Head(raw).val # None
                          THEN <<Head(raw).key>>
                          ELSE <<>>
         IN here \o all_names(Tail(set_cookies))

\* a de-dupe that keeps the last occurrence of a name
RECURSIVE dedupe_keep_last(_, _)
dedupe_keep_last(names, out) ==
    IF names = <<>> THEN out
    ELSE IF \E i \in 2..Len(names) : names[i] = Head(names)
         THEN dedupe_keep_last(Tail(names), out)
         ELSE dedupe_keep_last(Tail(names), Append(out, Head(names)))

\* lines 95-100: stable de-dupe
RECURSIVE dedupe(_, _)
dedupe(names, out) ==
    IF names = <<>> THEN out
    ELSE IF \E i \in 1..Len(out) : out[i] = Head(names)
         THEN dedupe(Tail(names), out)
         ELSE dedupe(Tail(names), Append(out, Head(names)))

\* _cookie_names
cookie_names(set_cookies) == dedupe(all_names(set_cookies), <<>>)

\* the headers drawn for a login response
Part(k, v) == [key |-> k, val |-> v]
HdrRefresh == <<Part("refresh_token", <<"a", "a">>), Part("Path", <<"a">>)>>
HdrOther == <<Part("other", <<"a">>)>>
HdrMalformed == <<Part("LL_Refresh", <<"a">>), Part("Domain", None),
                  Part("BadAttr", None)>>
HdrBlank == <<Part("refresh_token", <<" ">>)>>
HdrCleared == <<Part("refresh_token", <<"\"", "\"">>), Part("Max-Age", <<"0">>)>>
HdrTwo == <<Part("other", <<"a">>), Part("refresh", <<"a">>)>>

SetCookieLists ==
    {<<>>, <<HdrRefresh>>, <<HdrOther>>, <<HdrOther, HdrMalformed>>,
     <<HdrBlank, HdrRefresh>>, <<HdrOther, HdrOther>>,
     <<HdrCleared, HdrRefresh>>, <<HdrTwo, HdrOther>>,
     <<HdrOther, HdrRefresh, HdrOther>>}

LoginResponses ==
    [kind : {"error"}, err : HttpErrors]
        \cup [kind : {"json"}, access : Str \cup {None}, refresh : Str \cup {None},
              set_cookies : SetCookieLists]

\* a login that looks in the cookies before the body
login_pair_cookie_first(resp) ==
    IF resp.kind = "error" THEN [raised |-> resp.err]
    ELSE LET access == strip(or_empty(resp.access))
             cookie == extract_refresh_from_set_cookie(resp.set_cookies)
             refresh == IF cookie # <<>> THEN cookie
                        ELSE strip(or_empty(resp.refresh))
         IN IF access = <<>>
            THEN [raised |-> "RuntimeError: Login succeeded but no access token returned"]
            ELSE [raised |-> "", access |-> access, refresh |-> refresh]

\* a login that takes the access field as it comes
login_pair_unstripped(resp) ==
    IF resp.kind = "error" THEN [raised |-> resp.err]
    ELSE LET access == or_empty(resp.access)
             body == strip(or_empty(resp.refresh))
             refresh == IF body # <<>> THEN body
                        ELSE extract_refresh_from_set_cookie(resp.set_cookies)
         IN IF access = <<>>
            THEN [raised |-> "RuntimeError: Login succeeded but no access token returned"]
            ELSE [raised |-> "", access |-> access, refresh |-> refresh]

\* lines 110-114 and 159-163: the TokenPair of a login response, or the error
login_pair(resp) ==
    IF resp.kind = "error" THEN [raised |-> resp.err]
    ELSE LET access == strip(or_empty(resp.access))
             body == strip(or_empty(resp.refresh))
             refresh == IF body # <<>> THEN body
                        ELSE extract_refresh_from_set_cookie(resp.set_cookies)
         IN IF access = <<>>
            THEN [raised |-> "RuntimeError: Login succeeded but no access token returned"]
            ELSE [raised |-> "", access |-> access, refresh |-> refresh]

\* -------------------------------------------------------------------- state
VARIABLES
    env,          \* environment of the running process (os.getenv)
    store,        \* keychain items of the service, by account
    endpoint,     \* how POST /token/refresh/ answers, once it has been called
    op,           \* the operation the process runs
    pc,           \* its position
    refresh,      \* get_access_token's local `refresh`
    pair,         \* the TokenPair refresh_access or the login produced
    login,        \* the response to POST /token/ of this invocation
    gat,          \* what get_access_token returned: (token, source)
    ret,          \* what the operation returned to its caller
    exc,          \* the exception that left the operation, "" if none
    log,          \* the external calls of this invocation, in order
    store0,       \* the store when the invocation began
    prev,         \* the auth_status call this auth_status call repeats, if any
    args          \* the day and the options picklists create runs with

vars == <<env, store, endpoint, op, pc, refresh, pair, login, gat, ret, exc,
          log, store0, prev, args>>

Unset == [kind |-> "unset"]
NoPair == [raised |-> "nopair"]
NoRet == [kind |-> "noret"]
NoPrev == [op |-> "none"]
NoArgs == [kind |-> "noargs"]
EnvUnset == [API_TOKEN |-> <<>>, USERNAME |-> <<>>, PASSWORD |-> <<>>]

Init ==
    /\ env = EnvUnset
    /\ store \in Stores
    /\ endpoint = Unset
    /\ op = "none"
    /\ pc = "idle"
    /\ refresh = None
    /\ pair = NoPair
    /\ login = Unset
    /\ gat = NoRet
    /\ ret = NoRet
    /\ exc = ""
    /\ log = <<>>
    /\ store0 = store
    /\ prev = NoPrev
    /\ args = NoArgs

\* one entry of the call log
Call(c, a, v, k) == [call |-> c, arg |-> a, value |-> v, ok |-> k]

\* A process starts operation o in environment e: fresh locals, the store as
\* the last process left it.  The Token Endpoint answers a refresh the same
\* way while auth_status is repeated in one environment; any other operation
\* frees it to answer differently.
Enter(o, e) ==
    /\ pc \in {"idle", "done"}
    /\ op' = o
    /\ env' = e
    /\ store0' = store
    /\ refresh' = None
    /\ pair' = NoPair
    /\ login' = Unset
    /\ gat' = NoRet
    /\ ret' = NoRet
    /\ exc' = ""
    /\ log' = <<>>
    /\ UNCHANGED store

\* ------------------------------------------------------- get_access_token
GatOps == {"get_access_token", "auth_status"}

\* an auth_status that reports success whenever a source tag came back
auth_status_by_source(g) ==
    IF g.source = ""
    THEN [ok |-> FALSE, status |-> "AUTH_FAILED", reason |-> g.source,
          fix |-> "Run: LOCALLINE_USERNAME=... LOCALLINE_PASSWORD=... mcp-localline auth-bootstrap"]
    ELSE [ok |-> TRUE, status |-> "AUTH_OK", source |-> g.source]

\* auth_status: the record built from get_access_token's (token, source)
auth_status(g) ==
    IF g.token = None \/ g.token = <<>>
    THEN [ok |-> FALSE, status |-> "AUTH_FAILED", reason |-> g.source,
          fix |-> "Run: LOCALLINE_USERNAME=... LOCALLINE_PASSWORD=... mcp-localline auth-bootstrap"]
    ELSE [ok |-> TRUE, status |-> "AUTH_OK", source |-> g.source]

\* the commands of cli.py and the tools of server.py that call the vendor API
CliOps ==
    {"picklists_create", "orders_export", "customers_email_proof",
     "customers_email_send_all"}
ToolOps ==
    {"tool_picklists_create", "tool_orders_export", "tool_customers_email_proof",
     "tool_customers_email_send_all"}
CmdOps == CliOps \cup ToolOps

\* get_access_token returns g; auth_status wraps it, a command or tool goes
\* on to test it, any other caller has it as is
GatReturn(g) ==
    /\ gat' = g
    /\ ret' = IF op = "auth_status" THEN auth_status(g)
              ELSE IF op \in CmdOps THEN ret
              ELSE g
    /\ pc' = IF op \in CmdOps THEN "cmd_token" ELSE "done"

\* auth_status is called again right after auth_status, in the same environment
Again(o, t) == op = "auth_status" /\ o = "auth_status" /\ t = env.API_TOKEN

\* the process starts get_access_token (directly or through auth_status)
\* with LOCALLINE_API_TOKEN set to t
GatBegin ==
    \E o \in GatOps, t \in Str :
        /\ Enter(o, [EnvUnset EXCEPT !.API_TOKEN = t])
        /\ prev' = IF Again(o, t) THEN [op |-> op, ret |-> ret, log |-> log]
                   ELSE NoPrev
        /\ endpoint' = IF Again(o, t) THEN endpoint ELSE Unset
        /\ args' = NoArgs
        /\ pc' = "gat_direct"

\* an override read without trimming
direct_untrimmed(e) == e.API_TOKEN

\* line 129: direct = os.getenv("LOCALLINE_API_TOKEN", "").strip()
direct_token(e) == strip(e.API_TOKEN)

\* lines 129-131: the direct override
GatDirect ==
    /\ pc = "gat_direct"
    /\ LET direct == direct_token(env)
       IN IF direct # <<>>
          THEN GatReturn([token |-> direct, source |-> "env:LOCALLINE_API_TOKEN"])
          ELSE pc' = "gat_get_refresh" /\ UNCHANGED <<gat, ret>>
    /\ UNCHANGED <<env, store, endpoint, op, refresh, pair, login, exc, log,
                   store0, prev, args>>

\* line 133: refresh = _keychain_get(service, "refresh_token")
GatGetRefresh ==
    /\ pc = "gat_get_refresh"
    /\ refresh' = keychain_get(store, "refresh_token")
    /\ log' = Append(log, Call("get", "refresh_token", refresh', TRUE))
    /\ pc' = IF refresh' # None THEN "gat_refresh_access" ELSE "gat_get_access"
    /\ UNCHANGED <<env, store, endpoint, op, pair, login, gat, ret, exc, store0,
                   prev, args>>

\* a refresh that is tried once more after it failed
GatRefreshAccessRetry ==
    /\ pc = "gat_refresh_access"
    /\ \E resp \in RefreshResponses :
        /\ endpoint \in {Unset, resp}
        /\ endpoint' = resp
        /\ LET p == refresh_access(resp, refresh)
           IN /\ log' = Append(log, Call("post", "/token/refresh/", refresh,
                                         p.raised = ""))
              /\ IF p.raised = ""
                 THEN pair' = p /\ pc' = "gat_set_refresh"
                 ELSE /\ pair' = NoPair
                      /\ pc' = IF Len(log) < 2 THEN "gat_refresh_access"
                               ELSE "gat_get_access"
    /\ UNCHANGED <<env, store, op, refresh, login, gat, ret, exc, store0, prev, args>>

\* line 136: pair = refresh_access(base_url, refresh); any exception is
\* swallowed at line 141
GatRefreshAccess ==
    /\ pc = "gat_refresh_access"
    /\ \E resp \in RefreshResponses :
        /\ endpoint \in {Unset, resp}
        /\ endpoint' = resp
        /\ LET p == refresh_access(resp, refresh)
           IN /\ log' = Append(log, Call("post", "/token/refresh/", refresh,
                                         p.raised = ""))
              /\ IF p.raised = ""
                 THEN pair' = p /\ pc' = "gat_set_refresh"
                 ELSE pair' = NoPair /\ pc' = "gat_get_access"
    /\ UNCHANGED <<env, store, op, refresh, login, gat, ret, exc, store0, prev, args>>

\* line 137: _keychain_set(service, "refresh_token", pair.refresh); a failed
\* write raises CalledProcessError, swallowed at line 141
GatSetRefresh ==
    /\ pc = "gat_set_refresh"
    /\ \E k \in BOOLEAN :
        /\ log' = Append(log, Call("set", "refresh_token", pair.refresh, k))
        /\ IF k
           THEN /\ store' = keychain_set(store, "refresh_token", pair.refresh)
                /\ IF pair.access # <<>>
                   THEN pc' = "gat_set_access" /\ UNCHANGED <<gat, ret>>
                   ELSE GatReturn([token |-> pair.access,
                                   source |-> "keychain:refresh"])
           ELSE /\ store' = store
                /\ pc' = "gat_get_access"
                /\ UNCHANGED <<gat, ret>>
    /\ UNCHANGED <<env, endpoint, op, refresh, pair, login, exc, store0, prev, args>>

\* lines 138-140: _keychain_set(service, "access_token", pair.access) and
\* return pair.access, "keychain:refresh"
GatSetAccess ==
    /\ pc = "gat_set_access"
    /\ \E k \in BOOLEAN :
        /\ log' = Append(log, Call("set", "access_token", pair.access, k))
        /\ IF k
           THEN /\ store' = keychain_set(store, "access_token", pair.access)
                /\ GatReturn([token |-> pair.access,
                              source |-> "keychain:refresh"])
           ELSE /\ store' = store
                /\ pc' = "gat_get_access"
                /\ UNCHANGED <<gat, ret>>
    /\ UNCHANGED <<env, endpoint, op, refresh, pair, login, exc, store0, prev, args>>

\* lines 145-149: the cached access token, else the sentinel
GatGetAccess ==
    /\ pc = "gat_get_access"
    /\ LET access == keychain_get(store, "access_token")
       IN /\ log' = Append(log, Call("get", "access_token", access, TRUE))
          /\ IF access # None
             THEN GatReturn([token |-> access, source |-> "keychain:access"])
             ELSE GatReturn([token |-> None, source |-> "missing_refresh_token"])
    /\ UNCHANGED <<env, store, endpoint, op, refresh, pair, login, exc, store0,
                   prev, args>>

\* ---------------------------------- bootstrap_from_env, bootstrap_and_store
BsOps == {"bootstrap_from_env", "bootstrap_and_store"}

\* a record that reports the refresh token stored whatever was obtained
bootstrap_record_always(refresh_tok, set_cookies) ==
    [ok |-> TRUE,
     stored_refresh |-> TRUE,
     stored_access |-> TRUE,
     set_cookie_count |-> Len(set_cookies),
     set_cookie_names |-> cookie_names(set_cookies)]

\* the record bootstrap_and_store returns (lines 169-179)
bootstrap_record(refresh_tok, set_cookies) ==
    [ok |-> TRUE,
     stored_refresh |-> refresh_tok # <<>>,
     stored_access |-> TRUE,
     set_cookie_count |-> Len(set_cookies),
     set_cookie_names |-> cookie_names(set_cookies)]

\* the operation ends by raising e
Raise(e) == exc' = e /\ pc' = "done"

\* the values drawn for a username and a password: unset, blank, set
CredStr == {<<>>, <<" ">>, <<"a">>}

\* the process starts a login with LOCALLINE_USERNAME = u, LOCALLINE_PASSWORD = p
BsBegin ==
    \E o \in BsOps, u \in CredStr, p \in CredStr :
        /\ Enter(o, [EnvUnset EXCEPT !.USERNAME = u, !.PASSWORD = p])
        /\ prev' = NoPrev
        /\ endpoint' = Unset
        /\ args' = NoArgs
        /\ pc' = "bs_creds"

\* a test that lets a login through with one of the two credentials
missing_credentials_both(username, password) == username = <<>> /\ password = <<>>

\* lines 107 and 155: if not username or not password
missing_credentials(username, password) == username = <<>> \/ password = <<>>

\* lines 105-108 and 153-156
BsCreds ==
    /\ pc = "bs_creds"
    /\ LET username == strip(env.USERNAME)
           password == strip(env.PASSWORD)
       IN IF missing_credentials(username, password)
          THEN Raise("RuntimeError: Missing LOCALLINE_USERNAME/LOCALLINE_PASSWORD env vars")
          ELSE pc' = "bs_post" /\ UNCHANGED exc
    /\ UNCHANGED <<env, store, endpoint, op, refresh, pair, login, gat, ret, log,
                   store0, prev, args>>

\* lines 109-114 and 158-163: POST /token/ and the extraction
BsPost ==
    /\ pc = "bs_post"
    /\ \E resp \in LoginResponses :
        LET p == login_pair(resp)
        IN /\ login' = resp
           /\ log' = Append(log, Call("post", "/token/", None, p.raised = ""))
           /\ IF p.raised # ""
              THEN Raise(p.raised) /\ UNCHANGED <<pair, ret>>
              ELSE /\ pair' = p
                   /\ exc' = ""
                   /\ IF op = "bootstrap_from_env"
                      THEN /\ ret' = [access |-> p.access, refresh |-> p.refresh]
                           /\ pc' = "done"
                      ELSE /\ ret' = ret
                           /\ pc' = IF p.refresh # <<>> THEN "bs_set_refresh"
                                    ELSE "bs_set_access"
    /\ UNCHANGED <<env, store, endpoint, op, refresh, gat, store0, prev, args>>

\* lines 165-166: _keychain_set(service, "refresh_token", refresh); a failed
\* write raises CalledProcessError to the caller
BsSetRefresh ==
    /\ pc = "bs_set_refresh"
    /\ \E k \in BOOLEAN :
        /\ log' = Append(log, Call("set", "refresh_token", pair.refresh, k))
        /\ IF k
           THEN /\ store' = keychain_set(store, "refresh_token", pair.refresh)
                /\ pc' = "bs_set_access"
                /\ exc' = ""
           ELSE /\ store' = store
                /\ Raise("CalledProcessError")
    /\ UNCHANGED <<env, endpoint, op, refresh, pair, login, gat, ret, store0, prev, args>>

\* lines 167-179: _keychain_set(service, "access_token", access), the record
BsSetAccess ==
    /\ pc = "bs_set_access"
    /\ \E k \in BOOLEAN :
        /\ log' = Append(log, Call("set", "access_token", pair.access, k))
        /\ IF k
           THEN /\ store' = keychain_set(store, "access_token", pair.access)
                /\ ret' = bootstrap_record(pair.refresh, login.set_cookies)
                /\ pc' = "done"
                /\ exc' = ""
           ELSE /\ store' = store
                /\ ret' = ret
                /\ Raise("CalledProcessError")
    /\ UNCHANGED <<env, endpoint, op, refresh, pair, login, gat, store0, prev, args>>

Next ==
    \/ GatBegin
    \/ GatDirect
    \/ GatGetRefresh
    \/ GatRefreshAccess
    \/ GatSetRefresh
    \/ GatSetAccess
    \/ GatGetAccess
    \/ BsBegin
    \/ BsCreds
    \/ BsPost
    \/ BsSetRefresh
    \/ BsSetAccess

Spec == Init /\ [][Next]_vars

\* ------------------------------------------ one get_access_token invocation
\* a process that resolves a token
GatStep ==
    \/ GatDirect
    \/ GatGetRefresh
    \/ GatRefreshAccess
    \/ GatSetRefresh
    \/ GatSetAccess
    \/ GatGetAccess

\* the process's one call of get_access_token, over any store
GatBeginFirst == pc = "idle" /\ GatBegin

NextGat ==
    \/ GatBeginFirst
    \/ GatStep

\* A started invocation runs on: each store call returns and the network call
\* returns or times out (timeout=45 at line 47), so the step that is enabled
\* is taken.
LiveSpec == Init /\ [][NextGat]_vars /\ WF_vars(GatStep)

\* ------------------------------------------------- a separate operator
\* Manual credential rotation: while a get_access_token invocation is between
\* its store calls, an operator's own `security` process sets a slot, or
\* deletes it (None).  It is no call of the invocation; the log records
\* where it fell.
MaxOperatorWrites == 1

\* what the operator puts into a slot: the rotated token, or nothing
OperatorVals == {None, <<"o">>}

\* the stores the rotation starts from: each slot absent or holding a token
OperatorStores == [Slots -> {None, <<"a">>}]

InitOperator == Init /\ store \in OperatorStores

\* the process under rotation: one get_access_token call, no override set
GatBeginOperator ==
    /\ pc = "idle"
    /\ GatBegin
    /\ op' = "get_access_token"
    /\ env' = EnvUnset

OperatorWrites == {i \in 1..Len(log) : log[i].call = "operator"}

OperatorWrite ==
    /\ op = "get_access_token"
    /\ pc \in {"gat_refresh_access", "gat_set_refresh", "gat_set_access",
                "gat_get_access"}
    /\ Cardinality(OperatorWrites) < MaxOperatorWrites
    /\ \E a \in Slots, v \in OperatorVals :
        /\ store' = keychain_set(store, a, v)
        /\ log' = Append(log, Call("operator", a, v, TRUE))
    /\ UNCHANGED <<env, endpoint, op, pc, refresh, pair, login, gat, ret, exc,
                   store0, prev, args>>

NextOperator ==
    \/ GatBeginOperator
    \/ GatStep
    \/ OperatorWrite

SpecOperator == InitOperator /\ [][NextOperator]_vars /\ WF_vars(GatStep)

\* ------------------------------------------- commands (cli.py) and tools
PicklistOps == {"picklists_create", "tool_picklists_create"}
EmailOps ==
    {"customers_email_proof", "customers_email_send_all",
     "tool_customers_email_proof", "tool_customers_email_send_all"}

\* A date is its day number in October and November 2026 (1 = 2026-10-01,
\* a Thursday); date + timedelta(days = k) is n + k.
MaxDays == 7

\* the days drawn for today: Thursday 2026-10-29 onward
Days == 29..(28 + MaxDays)

\* the day the commands of SpecCommands run on: Monday 2026-11-02
RunDay == 33

\* date.weekday(): Monday is 0, Sunday is 6
weekday(n) == (n + 2) % 7

\* date.isoformat(): year, month, day
isoformat(n) == IF n <= 31 THEN <<2026, 10, n>> ELSE <<2026, 11, n - 31>>

\* a window whose Thursday is looked for without the modulo
current_week_window_no_mod(today) ==
    LET offset_to_thu == 3 - weekday(today)
        thu == today + offset_to_thu
        fri == thu - 6
    IN <<isoformat(fri), isoformat(thu)>>

\* _current_week_window(): Friday..Thursday around today
current_week_window(today) ==
    LET offset_to_thu == (3 - weekday(today)) % 7
        thu == today + offset_to_thu
        fri == thu - 6
    IN <<isoformat(fri), isoformat(thu)>>

\* the dates drawn for start_date and end_date
Dates == {isoformat(30), isoformat(36)}

\* a guard that lets a request through when one of its two dates is right
guard_blocked_both(today, start_date, end_date, allow_outside_current_week) ==
    /\ ~allow_outside_current_week
    /\ start_date # current_week_window(today)[1]
    /\ end_date # current_week_window(today)[2]

\* the current-week guard of picklists create
guard_blocked(today, start_date, end_date, allow_outside_current_week) ==
    /\ ~allow_outside_current_week
    /\ (start_date # current_week_window(today)[1]
           \/ end_date # current_week_window(today)[2])

\* what the tool returns when the guard blocks
guard_record(today, start_date, end_date) ==
    [ok |-> FALSE,
     status |-> "GUARD_BLOCKED",
     expected_start_date |-> current_week_window(today)[1],
     expected_end_date |-> current_week_window(today)[2],
     provided_start_date |-> start_date,
     provided_end_date |-> end_date,
     fix |-> "Use the expected current-week range or pass allow_outside_current_week=true intentionally."]

\* picklists create o, run on day today with LOCALLINE_API_TOKEN = t, is
\* stopped by the guard before any credential is resolved: the command
\* raises typer.BadParameter, the tool returns the record
Blocked(o, t, today) ==
    /\ \E start_date \in Dates, end_date \in Dates, allow \in BOOLEAN :
        /\ guard_blocked(today, start_date, end_date, allow)
        /\ args' = [today |-> today, start_date |-> start_date,
                    end_date |-> end_date, allow_outside_current_week |-> allow]
        /\ IF o \in CliOps
           THEN ret' = NoRet /\ exc' = "typer.BadParameter"
           ELSE ret' = guard_record(today, start_date, end_date) /\ exc' = ""
    /\ op' = o
    /\ env' = [EnvUnset EXCEPT !.API_TOKEN = t]
    /\ pc' = "done"
    /\ UNCHANGED <<store, endpoint, refresh, pair, login, gat, log, store0, prev>>

\* command or tool o passes its guard, if it has one, and calls
\* get_access_token
Begin(o, t, today) ==
    /\ IF o \in PicklistOps
       THEN \E start_date \in Dates, end_date \in Dates, allow \in BOOLEAN :
               /\ ~guard_blocked(today, start_date, end_date, allow)
               /\ args' = [today |-> today, start_date |-> start_date,
                           end_date |-> end_date,
                           allow_outside_current_week |-> allow]
       ELSE args' = NoArgs
    /\ Enter(o, [EnvUnset EXCEPT !.API_TOKEN = t])
    /\ prev' = NoPrev
    /\ endpoint' = Unset
    /\ pc' = "gat_direct"

CmdBlocked ==
    /\ pc = "idle"
    /\ \E o \in PicklistOps, t \in Str : Blocked(o, t, RunDay)

CmdBegin ==
    /\ pc = "idle"
    /\ \E o \in CmdOps, t \in Str : Begin(o, t, RunDay)

\* a test of the source tag in place of the token
no_token_by_source(g) == g.source = ""

\* `if not token:`
no_token(g) == g.token = None \/ g.token = <<>>

\* the AUTH_FAILED record of each command and tool
auth_failed(o) ==
    IF o \in EmailOps THEN [ok |-> FALSE, status |-> "AUTH_FAILED"]
    ELSE [ok |-> FALSE, status |-> "AUTH_FAILED",
          fix |-> IF o \in CliOps
                  THEN "Run mcp-localline auth-bootstrap with LOCALLINE_USERNAME/PASSWORD env vars"
                  ELSE "Run auth.bootstrap with env creds"]

\* `if not token:` after get_access_token: the record is printed and the
\* command exits with code 2, or the tool returns the record
CmdToken ==
    /\ pc = "cmd_token"
    /\ IF no_token(gat)
       THEN /\ ret' = auth_failed(op)
            /\ exc' = IF op \in CliOps THEN "typer.Exit(2)" ELSE ""
            /\ pc' = "done"
       ELSE /\ pc' = IF op \in PicklistOps THEN "cmd_vendors" ELSE "cmd_call"
            /\ UNCHANGED <<ret, exc>>
    /\ UNCHANGED <<env, store, endpoint, op, refresh, pair, login, gat, log,
                   store0, prev, args>>

\* what the vendor API answers: an HTTP status, or no answer at all
ApiResponses ==
    [kind : {"http"}, status_code : {200, 401, 500}]
        \cup [kind : {"error"}, err : {"URLError"}]

\* the `ok` of a client.py result
api_ok(r) == 200 <= r.status_code /\ r.status_code < 300

\* _managed_vendor_ids: GET vendors/, [] when the lookup is not ok
CmdVendors ==
    /\ pc = "cmd_vendors"
    /\ \E r \in ApiResponses, vendor_ids \in {<<>>, <<7>>} :
        IF r.kind = "error"
        THEN /\ log' = Append(log, Call("api", "GET /vendors/", <<>>, FALSE))
             /\ Raise(r.err)
        ELSE /\ api_ok(r) \/ vendor_ids = <<>>
             /\ log' = Append(log, Call("api", "GET /vendors/", vendor_ids, api_ok(r)))
             /\ pc' = "cmd_call"
             /\ exc' = exc
    /\ UNCHANGED <<env, store, endpoint, op, refresh, pair, login, gat, ret,
                   store0, prev, args>>

\* the business request of each command and tool
route(o) ==
    CASE o \in PicklistOps -> "POST /orders/create-vendor-picklists/"
      [] o \in {"orders_export", "tool_orders_export"} -> "GET /orders/"
      [] o \in {"customers_email_proof", "tool_customers_email_proof"}
            -> "POST /customers/email?id="
      [] OTHER -> "POST /customers/email"

\* the result of the business request, annotated
result(o, r, source, vendor_ids) ==
    LET out == [ok |-> api_ok(r), status_code |-> r.status_code, auth_source |-> source]
    IN IF o \in PicklistOps
       THEN [ok |-> out.ok, status_code |-> out.status_code, auth_source |-> source,
             vendor_ids_count |-> Len(vendor_ids),
             status |-> IF ~out.ok /\ out.status_code = 401 THEN "AUTH_FAILED" ELSE ""]
       ELSE out

\* post_json / get_json / post_form with the token, then the annotation
CmdCall ==
    /\ pc = "cmd_call"
    /\ \E r \in ApiResponses :
        IF r.kind = "error"
        THEN /\ log' = Append(log, Call("api", route(op), <<>>, FALSE))
             /\ Raise(r.err)
             /\ ret' = ret
        ELSE /\ log' = Append(log, Call("api", route(op), <<>>, api_ok(r)))
             /\ ret' = result(op, r, gat.source,
                              IF op \in PicklistOps THEN log[Len(log)].value ELSE <<>>)
             /\ pc' = "done"
             /\ exc' = exc
    /\ UNCHANGED <<env, store, endpoint, op, refresh, pair, login, gat, store0,
                   prev, args>>

NextCommands ==
    \/ CmdBlocked
    \/ CmdBegin
    \/ GatStep
    \/ CmdToken
    \/ CmdVendors
    \/ CmdCall

SpecCommands == Init /\ [][NextCommands]_vars

\* --------------------------------------------- picklists create, day by day
\* picklists create run on each of the days drawn, no override token set, over
\* the stores of OperatorStores
InitGuard == Init /\ store \in OperatorStores

GuardBlocked ==
    /\ pc = "idle"
    /\ \E o \in PicklistOps, today \in Days : Blocked(o, <<>>, today)

GuardBegin ==
    /\ pc = "idle"
    /\ \E o \in PicklistOps, today \in Days : Begin(o, <<>>, today)

NextGuard ==
    \/ GuardBlocked
    \/ GuardBegin
    \/ GatStep
    \/ CmdToken
    \/ CmdVendors
    \/ CmdCall

\* a started run goes on: every store call and network call returns or times
\* out (timeout=45 in auth.py, timeout=60 in client.py)
SpecGuard ==
    InitGuard /\ [][NextGuard]_vars
        /\ WF_vars(GatStep \/ CmdToken \/ CmdVendors \/ CmdCall)

\* ------------------------------------------------------------- properties
\* a missing, empty or whitespace-only value
blank(x) == x = None \/ \A i \in 1..Len(x) : x[i] \in Whitespace

\* t is s without its leading and trailing whitespace
Trims(t, s) ==
    /\ t # <<>> => t[1] \notin Whitespace /\ t[Len(t)] \notin Whitespace
    /\ \E l \in 0..Len(s) :
        /\ l + Len(t) <= Len(s)
        /\ SubSeq(s, l + 1, l + Len(t)) = t
        /\ \A i \in 1..Len(s) : (i <= l \/ i > l + Len(t)) => s[i] \in Whitespace

\* a slot that holds no value for the store adapter: absent, or empty
empty(st, account) == st[account] \in {None, <<>>}

\* the calls of this invocation, by kind
Gets == {i \in 1..Len(log) : log[i].call = "get"}
Sets == {i \in 1..Len(log) : log[i].call = "set"}
Posts == {i \in 1..Len(log) : log[i].call = "post"}
SetsOf(account) == {i \in Sets : log[i].arg = account}
FailedSets == {i \in Sets : ~log[i].ok}

GatDone == op \in GatOps /\ pc = "done"
Override == ~blank(env.API_TOKEN)

\* C1: with a non-blank LOCALLINE_API_TOKEN, get_access_token returns that
\* token trimmed, tagged env:LOCALLINE_API_TOKEN, and at no point of the
\* invocation reads the store, writes it or calls the Token Endpoint.
C1_DirectOverride ==
    (op \in GatOps /\ Override) =>
        /\ log = <<>>
        /\ store = store0
        /\ pc = "done" =>
            /\ exc = ""
            /\ gat.source = "env:LOCALLINE_API_TOKEN"
            /\ gat.token # <<>>
            /\ Trims(gat.token, env.API_TOKEN)

C1_Witness ==
    /\ GatDone
    /\ env.API_TOKEN = <<" ", "a">>
    /\ store0["refresh_token"] = <<"a", "a">>
    /\ gat.token = <<"a">>

\* the refresh response of this invocation carries a usable access token
RefreshOk == endpoint.kind = "json" /\ ~blank(endpoint.access)

\* get_access_token found a refresh token in the store and called the endpoint
Refreshing == ~Override /\ ~empty(store0, "refresh_token")

\* C2: with no override, a stored refresh token and a refresh response that
\* carries an access token, get_access_token returns the new access token
\* tagged keychain:refresh, the access_token slot holds it, and the
\* refresh_token slot holds the new refresh token if one came back, else the
\* one stored before.  (Stated for the invocations whose store writes all
\* succeed.)
C2_RefreshPersists ==
    (GatDone /\ Refreshing /\ RefreshOk /\ FailedSets = {}) =>
        /\ gat.source = "keychain:refresh"
        /\ Trims(gat.token, endpoint.access)
        /\ store["access_token"] = gat.token
        /\ IF ~blank(endpoint.refresh)
           THEN Trims(store["refresh_token"], endpoint.refresh)
           ELSE store["refresh_token"] = store0["refresh_token"]
        /\ ~empty(store, "refresh_token")

\* the refresh call of this invocation failed: an HTTP error status, a
\* transport error, or a body without an access token
RefreshFailed == endpoint.kind = "error" \/ (endpoint.kind = "json" /\ blank(endpoint.access))

\* C3: with no override and a stored refresh token, when the refresh call
\* fails with any error and the access_token slot holds a value,
\* get_access_token returns that value tagged keychain:access and raises
\* nothing.
C3_FallbackToStoredAccess ==
    (GatDone /\ Refreshing /\ RefreshFailed /\ ~empty(store0, "access_token")) =>
        /\ exc = ""
        /\ gat.source = "keychain:access"
        /\ gat.token = store0["access_token"]

C3_Witness ==
    /\ GatDone
    /\ Refreshing
    /\ endpoint.kind = "error"
    /\ endpoint.err = "URLError"
    /\ gat = [token |-> <<"a">>, source |-> "keychain:access"]

\* C4: get_access_token returns (None, "missing_refresh_token") whenever
\* there is no override, no stored refresh token and no stored access token;
\* and it returns no token only with that tag, only without an override,
\* with an empty access_token slot and with no successful refresh.
C4_NoneOnlyWhenExhausted ==
    GatDone =>
        /\ (~Override /\ empty(store0, "refresh_token") /\ empty(store0, "access_token"))
              => gat = [token |-> None, source |-> "missing_refresh_token"]
        /\ gat.token = None =>
              /\ gat.source = "missing_refresh_token"
              /\ ~Override
              /\ empty(store, "access_token")
              /\ \A i \in Posts : ~log[i].ok

\* C5: in get_access_token and in bootstrap_and_store, a store write that
\* fails after the remote call succeeded ends the operation with the store
\* error raised to the caller, and no token or record is returned.
C5_StoreWriteFailureSurfaced ==
    (pc = "done" /\ FailedSets # {}) =>
        /\ exc = "CalledProcessError"
        /\ gat = NoRet
        /\ ret = NoRet

\* C6: a successful refresh inside get_access_token always writes the new
\* access token, and get_access_token never writes an empty string to the
\* refresh_token slot.
C6_NoEmptyRefreshWrite ==
    op \in GatOps =>
        /\ \A i \in SetsOf("refresh_token") : log[i].value # <<>>
        /\ (pc = "done" /\ gat.source = "keychain:refresh")
              => \E i \in SetsOf("access_token") : log[i].value = gat.token /\ log[i].ok

BsDone == op = "bootstrap_and_store" /\ pc = "done"

\* the login of this invocation succeeded: the response carried an access token
LoggedIn == op \in BsOps /\ pair # NoPair

\* C7 as stated: on every successful login bootstrap_and_store writes the
\* access token to the access_token slot unconditionally, writes the
\* refresh_token slot exactly when a refresh token was obtained, and
\* returns stored_access = true, stored_refresh = (the refresh_token slot
\* was written), set_cookie_count = the number of raw Set-Cookie headers.
C7_AsStated ==
    (BsDone /\ LoggedIn) =>
        /\ \E i \in SetsOf("access_token") : log[i].value = pair.access
        /\ (SetsOf("refresh_token") # {}) <=> (pair.refresh # <<>>)

\* C7, amended: on every successful login bootstrap_and_store writes the
\* refresh_token slot exactly when a refresh token was obtained from the
\* body or the cookies, and then writes the access token to the
\* access_token slot unless that refresh_token write failed (the store error
\* is raised and the access_token slot is not touched); when it returns,
\* both writes took effect and the record has stored_access = true,
\* stored_refresh = (the refresh_token slot was written) and set_cookie_count
\* = the number of raw Set-Cookie headers; without refresh material the
\* refresh_token slot is left as it was.
C7_BootstrapPersists ==
    (BsDone /\ LoggedIn) =>
        /\ (SetsOf("refresh_token") # {}) <=> (pair.refresh # <<>>)
        /\ \A i \in SetsOf("refresh_token") : log[i].value = pair.refresh
        /\ (\E i \in SetsOf("access_token") : log[i].value = pair.access)
              <=> (\A i \in SetsOf("refresh_token") : log[i].ok)
        /\ (ret # NoRet) <=> (FailedSets = {})
        /\ (ret = NoRet) <=> (exc = "CalledProcessError")
        /\ pair.refresh = <<>> => store["refresh_token"] = store0["refresh_token"]
        /\ (blank(login.refresh) /\ login.set_cookies = <<>>) => pair.refresh = <<>>
        /\ ~blank(login.refresh) => Trims(pair.refresh, login.refresh)
        /\ ret # NoRet =>
              /\ ret.ok
              /\ ret.stored_access
              /\ store["access_token"] = pair.access
              /\ Trims(pair.access, login.access)
              /\ ret.stored_refresh <=> (\E i \in SetsOf("refresh_token") : log[i].ok)
              /\ ret.stored_refresh => store["refresh_token"] = pair.refresh
              /\ ret.set_cookie_count = Len(login.set_cookies)

\* {"access": "a"} with no cookies, over a stored refresh token
C7_Witness ==
    /\ BsDone
    /\ login.kind = "json"
    /\ login.access = <<"a">>
    /\ login.refresh = None
    /\ login.set_cookies = <<>>
    /\ store0["refresh_token"] = <<"a", "a">>
    /\ store["refresh_token"] = <<"a", "a">>
    /\ ret # NoRet
    /\ ~ret.stored_refresh
    /\ ret.set_cookie_count = 0

\* the credential source tag of an auth_status record
SourceOf(r) == IF r.ok THEN r.source ELSE r.reason

\* C8: auth_status returns the failure record, with get_access_token's
\* sentinel as reason and a remediation hint, exactly when get_access_token
\* resolved no token, else the success record with get_access_token's
\* source; and the store differs from the one the call began with only by
\* the writes of get_access_token's refresh attempt, so not at all when no
\* refresh response was accepted.
C8_AuthStatusRecord ==
    (op = "auth_status" /\ pc = "done") =>
        /\ exc = ""
        /\ ret.ok <=> (gat.token # None)
        /\ ~ret.ok => /\ ret.status = "AUTH_FAILED"
                      /\ ret.reason = gat.source
                      /\ ret.reason = "missing_refresh_token"
                      /\ ret.fix # ""
        /\ ret.ok => ret.status = "AUTH_OK" /\ ret.source = gat.source
        /\ \A a \in Slots :
              store[a] # store0[a] =>
                  /\ \E j \in Posts : log[j].ok
                  /\ \E i \in SetsOf(a) : log[i].ok /\ log[i].value = store[a]

C8_Witness ==
    /\ op = "auth_status"
    /\ pc = "done"
    /\ ~ret.ok
    /\ Sets # {}
    /\ store # store0

\* C9: auth_status called again with no credential change in between and a
\* refresh endpoint that answers the same way reports the same credential
\* source as the call before.  (Stated for the calls whose store writes all
\* succeed.)
C9_AuthStatusIdempotent ==
    (op = "auth_status" /\ pc = "done" /\ prev # NoPrev
        /\ FailedSets = {}
        /\ \A i \in 1..Len(prev.log) : prev.log[i].ok \/ prev.log[i].call # "set")
        => SourceOf(ret) = SourceOf(prev.ret)

\* C10: a TokenPair returned by a login or a refresh has a non-empty access
\* field; a response whose access token is missing, empty or
\* whitespace-only yields an error and no TokenPair; a login response with a
\* usable access token and no refresh token yields a TokenPair.
C10_TokenPairHasAccess ==
    /\ pair # NoPair =>
          /\ pair.access # <<>>
          /\ op \in BsOps => Trims(pair.access, login.access)
          /\ op \in GatOps => Trims(pair.access, endpoint.access)
    /\ (op \in BsOps /\ login.kind = "json") =>
          /\ blank(login.access) => (pair = NoPair /\ exc # "" /\ ret = NoRet)
          /\ ~blank(login.access) => pair # NoPair
    /\ (op = "bootstrap_from_env" /\ pc = "done" /\ login.kind = "json"
            /\ ~blank(login.access)) => (exc = "" /\ ret = [access |-> pair.access,
                                                            refresh |-> pair.refresh])
    /\ (op \in GatOps /\ Posts # {} /\ endpoint.kind = "json") =>
          (blank(endpoint.access) <=> pair = NoPair)

C10_Witness ==
    /\ op = "bootstrap_from_env"
    /\ pc = "done"
    /\ login.kind = "json"
    /\ login.access = <<" ", "a">>
    /\ exc = ""
    /\ ret = [access |-> <<"a">>, refresh |-> <<>>]

\* the refresh call of this invocation returned a TokenPair
Refreshed == op \in GatOps /\ pair # NoPair

\* C11: when the refresh response carries an access token and no new
\* refresh token, refresh_access returns a TokenPair whose refresh field is
\* the refresh token the caller passed; and it never returns a TokenPair with
\* an empty refresh field when the caller passed a non-empty one.
C11_RefreshPreserved ==
    Refreshed =>
        /\ endpoint.refresh \in {None, <<>>} => pair.refresh = refresh
        /\ refresh # <<>> => pair.refresh # <<>>

\* C12: on login the TokenPair's refresh token is the body's refresh field,
\* trimmed, when that field carries a token, and otherwise the value
\* extracted from the Set-Cookie headers (empty without headers); a body
\* refresh takes precedence over a cookie refresh.
C12_BodyRefreshFirst ==
    LoggedIn =>
        /\ ~blank(login.refresh) =>
              /\ pair.refresh # <<>>
              /\ Trims(pair.refresh, login.refresh)
        /\ blank(login.refresh) =>
              /\ pair.refresh = extract_refresh_from_set_cookie(login.set_cookies)
              /\ login.set_cookies = <<>> => pair.refresh = <<>>

\* a body refresh "a" next to a cookie refresh_token=aa
C12_Witness ==
    /\ LoggedIn
    /\ login.refresh = <<"a">>
    /\ login.set_cookies = <<HdrRefresh>>
    /\ extract_refresh_from_set_cookie(login.set_cookies) = <<"a", "a">>
    /\ pair.refresh = <<"a">>

\* the cookies one raw header yields: those of its strict parse, and when
\* the strict parse yields nothing the one of the fallback split
cookies_of(raw) ==
    IF SimpleCookie(raw) # <<>> THEN SimpleCookie(raw)
    ELSE IF raw # <<>> /\ Head(raw).val # None
         THEN <<[key |-> Head(raw).key, value |-> Head(raw).val]>>
         ELSE <<>>

\* the cookies of an ordered header list, in header order
RECURSIVE cookies_seen(_)
cookies_seen(set_cookies) ==
    IF set_cookies = <<>> THEN <<>>
    ELSE cookies_of(Head(set_cookies)) \o cookies_seen(Tail(set_cookies))

\* a cookie that carries a refresh token
refresh_cookie(c) == name_matches(c.key) /\ ~blank(c.value)

\* C13: cookie extraction returns the trimmed value of the first cookie, in
\* header order, whose name is an alias or contains "refresh" and whose value
\* is non-empty after trimming (strict parse, and the fallback split when the
\* strict parse yields nothing); a matching name with an empty value does not
\* stop the search; the result is empty exactly when there is no such cookie.
C13_FirstRefreshCookie ==
    (LoggedIn /\ blank(login.refresh)) =>
        LET seen == cookies_seen(login.set_cookies)
            hits == {i \in 1..Len(seen) : refresh_cookie(seen[i])}
        IN /\ hits = {} <=> pair.refresh = <<>>
           /\ \A i \in hits :
                 (\A j \in hits : i <= j) =>
                     /\ pair.refresh # <<>>
                     /\ Trims(pair.refresh, seen[i].value)

\* C14: bootstrap_and_store leaves the store unchanged on every failure
\* before persistence: with a blank username or password it fails without a
\* Token Endpoint call and without a store write; when the login fails or
\* its response carries no usable access token it fails without a store
\* write, whatever refresh token the body or the cookies carried.
C14_FailureLeavesStore ==
    op = "bootstrap_and_store" =>
        /\ (blank(env.USERNAME) \/ blank(env.PASSWORD)) =>
              /\ log = <<>>
              /\ store = store0
              /\ ret = NoRet
              /\ pc = "done" =>
                    exc = "RuntimeError: Missing LOCALLINE_USERNAME/LOCALLINE_PASSWORD env vars"
        /\ (login # Unset /\ (login.kind = "error" \/ blank(login.access))) =>
              /\ pc = "done"
              /\ exc # ""
              /\ ret = NoRet
              /\ Sets = {}
              /\ store = store0

\* a login response without an access token that carries a refresh token in
\* its body and in a cookie
C14_Witness ==
    /\ BsDone
    /\ login.kind = "json"
    /\ login.access = <<" ">>
    /\ login.refresh = <<"a">>
    /\ login.set_cookies = <<HdrRefresh>>
    /\ exc = "RuntimeError: Login succeeded but no access token returned"
    /\ store = store0

\* C15: with no override and an empty refresh_token slot, get_access_token
\* makes no Token Endpoint call and no store write, and returns the
\* access_token slot's value as it is, tagged keychain:access, when that slot
\* is non-empty.
C15_NoRefreshTokenNoCalls ==
    (op \in GatOps /\ ~Override /\ empty(store0, "refresh_token")) =>
        /\ Posts = {}
        /\ Sets = {}
        /\ store = store0
        /\ pc = "done" =>
              /\ exc = ""
              /\ ~empty(store0, "access_token") =>
                    gat = [token |-> store0["access_token"],
                           source |-> "keychain:access"]

C15_Witness ==
    /\ GatDone
    /\ ~Override
    /\ store0 = [refresh_token |-> <<>>, access_token |-> <<"a", "a">>]
    /\ gat.token = <<"a", "a">>
    /\ gat.source = "keychain:access"
    /\ Len(log) = 2

\* the four outcomes of get_access_token
Outcomes ==
    {"env:LOCALLINE_API_TOKEN", "keychain:refresh", "keychain:access",
     "missing_refresh_token"}

\* one invocation calls the refresh route at most once and no other route,
\* reads the access_token slot right after a failed refresh, and ends
\* without an exception in one of the four outcomes
NoRetry ==
    op \in GatOps =>
        /\ Cardinality(Posts) <= 1
        /\ \A i \in Posts :
              /\ log[i].arg = "/token/refresh/"
              /\ (~log[i].ok /\ i < Len(log)) =>
                    log[i + 1] = Call("get", "access_token", log[i + 1].value, TRUE)
        /\ pc = "done" => (exc = "" /\ gat # NoRet /\ gat.source \in Outcomes)

\* C16: no retry: a get_access_token invocation makes at most one call to the
\* refresh route and none to the login route, goes on to the stored access
\* token after a failed refresh without a second attempt, and always
\* terminates with one of the four outcomes.
C16_NoRetry ==
    /\ []NoRetry
    /\ (op \in GatOps /\ pc # "done") ~> (GatDone /\ gat.source \in Outcomes)

\* a refresh that failed, followed by the read of the stored access token
C16_Witness ==
    /\ GatDone
    /\ Len(log) = 3
    /\ log[2].call = "post"
    /\ ~log[2].ok
    /\ log[3].call = "get"
    /\ gat.source = "keychain:access"

\* the value of slot a just before call i of the log: what the last writer
\* before i left there, the invocation or the operator
RECURSIVE SlotAt(_, _)
SlotAt(a, i) ==
    IF i <= 1 THEN store0[a]
    ELSE LET c == log[i - 1]
         IN IF c.arg = a /\ (c.call = "operator" \/ (c.call = "set" /\ c.ok))
            THEN c.value
            ELSE SlotAt(a, i - 1)

\* get_access_token ends without raising; a keychain:refresh token is the
\* access token of this invocation's refresh response and each slot then
\* holds what its last writer wrote; a keychain:access token is the
\* access_token slot's value when it was read
ToleratesOperator ==
    GatDone =>
        /\ exc = ""
        /\ gat.source \in Outcomes
        /\ gat.source = "keychain:refresh" =>
              /\ RefreshOk
              /\ Trims(gat.token, endpoint.access)
              /\ \A a \in Slots : store[a] = SlotAt(a, Len(log) + 1)
        /\ gat.source = "keychain:access" =>
              /\ log[Len(log)].call = "get"
              /\ gat.token = SlotAt("access_token", Len(log))

\* C17: when an operator writes either slot between the store calls of a
\* get_access_token invocation, the invocation still terminates with one of
\* its outcomes and never raises; a keychain:refresh token is the access token
\* the endpoint returned in this invocation, a keychain:access token is the
\* access_token slot's value at the moment it was read, and after a
\* successful refresh each slot holds what its last writer wrote.
C17_ToleratesOperator ==
    /\ []ToleratesOperator
    /\ (op \in GatOps /\ pc # "done") ~> GatDone

\* the operator rotates the refresh token between the invocation's read and
\* its write of that slot; the invocation's write is the last
C17_Witness ==
    /\ GatDone
    /\ gat.source = "keychain:refresh"
    /\ Len(log) = 5
    /\ log[3] = Call("operator", "refresh_token", <<"o">>, TRUE)
    /\ log[4].call = "set"
    /\ store["refresh_token"] = <<"a">>

\* C18: whenever get_access_token returns with keychain:access or with no
\* token, both slots of the store hold what they held before the invocation:
\* a refresh attempt that is given up on leaves no partial write behind.
C18_NoPartialWrite ==
    (GatDone /\ gat.source \in {"keychain:access", "missing_refresh_token"}) =>
        store = store0

\* where name n is first seen among the cookies c
FirstSeen(c, n) == CHOOSE i \in 1..Len(c) : c[i].key = n /\ \A j \in 1..(i - 1) : c[j].key # n

\* C19: the cookie names list of bootstrap_and_store's record holds every
\* cookie name observed in the response's Set-Cookie headers (strict parse,
\* else fallback split) and no other, each exactly once, in order of first
\* occurrence across the header list.
C19_CookieNames ==
    (BsDone /\ ret # NoRet) =>
        LET names == ret.set_cookie_names
            seen == cookies_seen(login.set_cookies)
        IN /\ \A i \in 1..Len(seen) : \E j \in 1..Len(names) : names[j] = seen[i].key
           /\ \A j \in 1..Len(names) : \E i \in 1..Len(seen) : seen[i].key = names[j]
           /\ \A j, k \in 1..Len(names) : names[j] = names[k] => j = k
           /\ \A j, k \in 1..Len(names) :
                 j < k => FirstSeen(seen, names[j]) < FirstSeen(seen, names[k])

\* other, refresh_token, other again
C19_Witness ==
    /\ BsDone
    /\ ret # NoRet
    /\ login.set_cookies = <<HdrOther, HdrRefresh, HdrOther>>
    /\ ret.set_cookie_names = <<"other", "refresh_token">>

\* the requests of this invocation to the vendor API
ApiCalls == {i \in 1..Len(log) : log[i].call = "api"}

\* C20: no business request is sent to the vendor API without a resolved
\* token: in every command and tool, when get_access_token returns no token
\* the operation ends with an AUTH_FAILED result and makes no vendor API
\* call (no vendors lookup, no picklist creation, no export, no email).
C20_NoCallWithoutToken ==
    op \in CmdOps =>
        /\ ApiCalls # {} => (gat # NoRet /\ ~blank(gat.token))
        /\ (gat # NoRet /\ gat.token = None) =>
              /\ ApiCalls = {}
              /\ pc \in {"cmd_token", "done"}
              /\ pc = "done" =>
                    /\ ret # NoRet
                    /\ ~ret.ok
                    /\ ret.status = "AUTH_FAILED"

\* send-all with a failed refresh and nothing cached
C20_Witness ==
    /\ op = "customers_email_send_all"
    /\ pc = "done"
    /\ gat = [token |-> None, source |-> "missing_refresh_token"]
    /\ Posts # {}
    /\ ret = [ok |-> FALSE, status |-> "AUTH_FAILED"]
    /\ exc = "typer.Exit(2)"

\* the request's dates are not the current-week window of its day
OutsideWeek ==
    \/ args.start_date # current_week_window(args.today)[1]
    \/ args.end_date # current_week_window(args.today)[2]

\* a request outside the current week without the override ends blocked with
\* no store call, no network call and no credential resolved; any other
\* request is not blocked and ends only after get_access_token returned
Guarded ==
    op \in PicklistOps =>
        /\ (~args.allow_outside_current_week /\ OutsideWeek) =>
              /\ pc = "done"
              /\ log = <<>>
              /\ store = store0
              /\ gat = NoRet
              /\ refresh = None
              /\ pair = NoPair
              /\ op \in CliOps => (exc = "typer.BadParameter" /\ ret = NoRet)
              /\ op \in ToolOps => (~ret.ok /\ ret.status = "GUARD_BLOCKED")
        /\ (args.allow_outside_current_week \/ ~OutsideWeek) =>
              /\ exc # "typer.BadParameter"
              /\ ret # NoRet => ret.status # "GUARD_BLOCKED"
              /\ pc = "done" => gat # NoRet

\* C21: picklist creation is guarded by the current fulfillment week: unless
\* allow_outside_current_week is set, a request whose (start_date, end_date)
\* differs from the current-week window is blocked before any credential
\* resolution, store access or network call, so no picklist is created and
\* no token is refreshed; with the override set the guard is skipped and the
\* request proceeds to credential resolution.
C21_CurrentWeekGuard ==
    /\ []Guarded
    /\ (op \in PicklistOps /\ args.allow_outside_current_week /\ gat = NoRet)
          ~> (op \in PicklistOps /\ gat # NoRet)

\* on Monday 2026-11-02 the command is asked for 2026-10-30..2026-10-30
C21_Witness ==
    /\ op = "picklists_create"
    /\ args = [today |-> 33, start_date |-> <<2026, 10, 30>>,
               end_date |-> <<2026, 10, 30>>,
               allow_outside_current_week |-> FALSE]
    /\ pc = "done"
    /\ exc = "typer.BadParameter"
    /\ log = <<>>

\* s..e is the Friday..Thursday week around today
FridayToThursday(today, s, e) ==
    \E fri \in 1..61, thu \in 1..61 :
        /\ isoformat(fri) = s
        /\ isoformat(thu) = e
        /\ weekday(fri) = 4
        /\ weekday(thu) = 3
        /\ thu = fri + 6
        /\ fri <= today
        /\ today <= thu
        /\ weekday(today) = 3 => thu = today
        /\ weekday(today) = 4 => fri = today

\* the guard ran and let the request through
PassedGuard ==
    /\ ~args.allow_outside_current_week
    /\ exc # "typer.BadParameter"
    /\ ret # NoRet => ret.status # "GUARD_BLOCKED"

\* C22: for every weekday of today, the window _current_week_window computes
\* starts on a Friday, ends on the Thursday 6 days later and contains today;
\* on a Thursday it ends today, on a Friday it starts today.  (The window is
\* read off the tool's GUARD_BLOCKED record, and off the dates of a request
\* the guard let through.)
C22_WeekWindow ==
    op \in PicklistOps =>
        /\ (ret # NoRet /\ ret.status = "GUARD_BLOCKED") =>
              FridayToThursday(args.today, ret.expected_start_date,
                               ret.expected_end_date)
        /\ PassedGuard =>
              FridayToThursday(args.today, args.start_date, args.end_date)

\* Thursday 2026-10-29: the window is 2026-10-23..2026-10-29
C22_Witness ==
    /\ op = "tool_picklists_create"
    /\ args.today = 29
    /\ weekday(args.today) = 3
    /\ ret # NoRet
    /\ ret.status = "GUARD_BLOCKED"
    /\ ret.expected_start_date = <<2026, 10, 23>>
    /\ ret.expected_end_date = <<2026, 10, 29>>

====
